---- MODULE Spec2Model ----
(***************************************************************************)
(* A model of ShadowMassPDFHarvester                                       *)
(* (src/streamlit/articles_maj_&_extraction/articles_maj_&_extraction1/    *)
(* streamlit_app-4.py): one harvester instance, its two in-memory URL      *)
(* sets, its sqlite table harvested_pdfs, its download directory, and the  *)
(* scan of one page, step by step.                                         *)
(*                                                                         *)
(* Text (URLs, titles, file names, the first bytes of a download) is a     *)
(* sequence of one-character strings, so that urlparse, basename, the      *)
(* title sanitiser and startswith are computed and not assumed.            *)
(*                                                                         *)
(* Environment: an HTTP request either raises (network error, timeout,     *)
(* non-success status) or delivers a body; a write to the store either     *)
(* succeeds or raises (store unavailable); the local file system does not  *)
(* fail.  The parsed page (soup) is given by what each of the seven        *)
(* extraction methods returns on it, or by the fact that it raises.        *)
(*                                                                         *)
(* Specifications: Spec, the scans of one session; SpecConc, two threads   *)
(* scanning on one instance; SpecBatch, the 'scan all' loop of main()      *)
(* under fairness; SpecAnchor, scans of a page given by its <a> elements;  *)
(* SpecPure, single calls of the functions that read no state (the URL     *)
(* classifiers of ShadowMassPDFHarvester and of ADEMEHarvester,            *)
(* streamlit_app-5.py, the JSON scan, the walk of an attachments list,     *)
(* convert_amount and _guess_factor_value of streamlit_app-2.py);          *)
(* SpecRestart, scans with a new harvester constructed on the same         *)
(* database between them; SpecExport, scans and the export of main();      *)
(* SpecPublisher, update_database of ADEMEAutoPublisher                    *)
(* (streamlit_app-3.py) on its table articles.                             *)
(***************************************************************************)
EXTENDS Integers, Sequences, FiniteSets, Bags, TLC

VARIABLES
    downloaded_urls,  \* self.downloaded_urls
    failed_urls,      \* self.failed_urls
    db_lock,          \* self.db_lock: "free" or the thread that holds it
    harvested_pdfs,   \* the table harvested_pdfs: a bag of rows
    files,            \* the download directory: file name -> what it holds
    clock,            \* the wall clock, in seconds
    th,               \* the frame of scan_url_for_pdfs of each thread
    calls,            \* how many calls of scan_url_for_pdfs have been made
    pure,             \* a call of one of the pure functions: argument and result
    batch,            \* the 'scan all' loop of main()
    report,           \* report_data of main(): the export made in this script run
    articles,         \* the table articles of ADEMEAutoPublisher: a bag of rows
    updating          \* the frame of update_database

vars == <<downloaded_urls, failed_urls, db_lock, harvested_pdfs, files, clock, th, calls, pure,
          batch, report, articles, updating>>

\* The state of the harvester and of its scans
scanVars == <<downloaded_urls, failed_urls, db_lock, harvested_pdfs, files, clock, th, calls>>

\* The state of the publisher (streamlit_app-3.py)
pubVars == <<articles, updating>>

-----------------------------------------------------------------------------
(* Bounds *)

\* The clock runs from 0 to MaxClock.
MaxClock == 1

\* At most MaxCalls calls of scan_url_for_pdfs are made on the instance.
MaxCalls == 2

-----------------------------------------------------------------------------
(* Threads *)

\* Threads that may run a scan on the instance.
Threads == {"t1", "t2"}

\* The Streamlit script thread of one session: main() runs the scans of a
\* session one after the other.
MainThreads == {"t1"}

-----------------------------------------------------------------------------
(* Text *)

Digits == <<"0", "1", "2", "3", "4", "5", "6", "7", "8", "9">>

RECURSIVE IntToStr(_)
\* str(n) for n >= 0
IntToStr(n) ==
    IF n < 10 THEN <<Digits[n + 1]>>
    ELSE IntToStr(n \div 10) \o <<Digits[(n % 10) + 1]>>

\* s.startswith(p)
StartsWith(s, p) == Len(s) >= Len(p) /\ SubSeq(s, 1, Len(p)) = p

\* The least index i >= from with s[i] \in cs, or Len(s) + 1.
RECURSIVE FirstIdx(_, _, _)
FirstIdx(s, cs, from) ==
    IF from > Len(s) THEN Len(s) + 1
    ELSE IF s[from] \in cs THEN from
    ELSE FirstIdx(s, cs, from + 1)

\* The greatest index i with s[i] = c, or 0.
RECURSIVE LastIdx(_, _, _)
LastIdx(s, c, upto) ==
    IF upto = 0 THEN 0
    ELSE IF s[upto] = c THEN upto
    ELSE LastIdx(s, c, upto - 1)

\* s.strip(), for the only white space of the model, the blank
RECURSIVE Strip(_)
Strip(s) ==
    IF s = <<>> THEN s
    ELSE IF Head(s) = " " THEN Strip(Tail(s))
    ELSE IF s[Len(s)] = " " THEN Strip(SubSeq(s, 1, Len(s) - 1))
    ELSE s

HTTP == <<"h", "t", "t", "p", ":">>
DOTPDF == <<".", "p", "d", "f">>
DOCUMENT == <<"d", "o", "c", "u", "m", "e", "n", "t">>

\* s.lower(), for the capital letters of the model
LowerChar(c) ==
    CASE c = "A" -> "a" [] c = "B" -> "b" [] c = "C" -> "c" [] c = "D" -> "d"
      [] c = "F" -> "f" [] c = "G" -> "g" [] c = "H" -> "h" [] c = "I" -> "i"
      [] c = "J" -> "j" [] c = "L" -> "l" [] c = "M" -> "m" [] c = "O" -> "o"
      [] c = "P" -> "p" [] c = "T" -> "t" [] c = "V" -> "v" [] c = "W" -> "w"
      [] OTHER -> c

Lower(s) == IF s = <<>> THEN <<>> ELSE [i \in 1..Len(s) |-> LowerChar(s[i])]

\* p in s
Contains(s, p) == \E i \in 1..(Len(s) - Len(p) + 1) : SubSeq(s, i, i + Len(p) - 1) = p

\* s.endswith(p)
EndsWith(s, p) == Len(s) >= Len(p) /\ SubSeq(s, Len(s) - Len(p) + 1, Len(s)) = p

\* The part of s before index i, and the part after it.
Before(s, i) == SubSeq(s, 1, i - 1)
After(s, i) == SubSeq(s, i + 1, Len(s))

Letters == {"a", "b", "c", "d", "e", "f", "g", "h", "i", "j", "k", "l", "m", "n", "o", "p", "q",
            "r", "s", "t", "u", "v", "w", "x", "y", "z", "A", "B", "C", "D", "F", "G", "H",
            "I", "J", "L", "M", "O", "P", "T", "V", "W"}
SchemeChars == Letters \cup {Digits[i] : i \in 1..Len(Digits)} \cup {"+", "-", "."}
HTTPSCHEME == <<"h", "t", "t", "p">>
HTTPS == <<"h", "t", "t", "p", "s">>
FTP == <<"f", "t", "p">>
\* urllib.parse.uses_params, uses_relative and uses_netloc, as far as the model
\* has schemes
UsesParams == {<<>>, HTTPSCHEME, HTTPS, FTP}
UsesRelative == {<<>>, HTTPSCHEME, HTTPS, FTP}
UsesNetloc == {<<>>, HTTPSCHEME, HTTPS, FTP}

\* urllib.parse.urlparse(url), step by step.  Last, the parameters: the text
\* after the first ";" of the last path segment, for the schemes that have them.
SplitParams(scheme, netloc, fragment, query, rest) ==
    LET semi == IF scheme \in UsesParams
                THEN FirstIdx(rest, {";"}, LastIdx(rest, "/", Len(rest)) + 1)
                ELSE Len(rest) + 1
    IN  [scheme |-> scheme, netloc |-> netloc, path |-> Before(rest, semi),
         params |-> After(rest, semi), query |-> query, fragment |-> fragment]

\* The query: the text after the first "?"
SplitQuery(scheme, netloc, fragment, rest) ==
    LET qmark == FirstIdx(rest, {"?"}, 1)
    IN  SplitParams(scheme, netloc, fragment, After(rest, qmark), Before(rest, qmark))

\* The fragment: the text after the first "#"
SplitFragment(scheme, netloc, rest) ==
    LET hash == FirstIdx(rest, {"#"}, 1)
    IN  SplitQuery(scheme, netloc, After(rest, hash), Before(rest, hash))

\* The netloc: after "//", up to the first "/", "?" or "#"
SplitNetloc(scheme, rest) ==
    LET nend == FirstIdx(rest, {"/", "?", "#"}, 3)
    IN  SplitFragment(scheme,
                      IF StartsWith(rest, <<"/", "/">>) THEN SubSeq(rest, 3, nend - 1) ELSE <<>>,
                      IF StartsWith(rest, <<"/", "/">>) THEN SubSeq(rest, nend, Len(rest)) ELSE rest)

\* First, the scheme: the text before the first ":" if it begins with a letter
\* and is made of scheme characters.
UrlParse(url) ==
    LET colon == FirstIdx(url, {":"}, 1)
        hasScheme == /\ 1 < colon
                     /\ colon <= Len(url)
                     /\ url[1] \in Letters
                     /\ \A i \in 1..(colon - 1) : url[i] \in SchemeChars
    IN  SplitNetloc(IF hasScheme THEN Lower(Before(url, colon)) ELSE <<>>,
                    IF hasScheme THEN After(url, colon) ELSE url)

\* urlparse(url).path
UrlPath(url) == UrlParse(url).path

\* urllib.parse.urlunparse(p)
UrlUnparse(p) ==
    LET withParams == IF p.params # <<>> THEN p.path \o <<";">> \o p.params ELSE p.path
        rooted == IF withParams # <<>> /\ Head(withParams) # "/"
                  THEN <<"/">> \o withParams ELSE withParams
        withNetloc ==
            IF p.netloc # <<>> \/ (/\ p.scheme # <<>>
                                   /\ p.scheme \in UsesNetloc
                                   /\ ~StartsWith(withParams, <<"/", "/">>))
            THEN <<"/", "/">> \o p.netloc \o rooted
            ELSE withParams
    IN  (IF p.scheme # <<>> THEN p.scheme \o <<":">> ELSE <<>>)
        \o withNetloc
        \o (IF p.query # <<>> THEN <<"?">> \o p.query ELSE <<>>)
        \o (IF p.fragment # <<>> THEN <<"#">> \o p.fragment ELSE <<>>)

\* The path of the reference against the path of the base: a rooted path
\* stands, any other path replaces the last segment of the base.
JoinPath(bpath, path) ==
    LET joined == IF path # <<>> /\ Head(path) = "/" THEN path
                  ELSE Before(bpath, LastIdx(bpath, "/", Len(bpath)) + 1) \o path
    IN  IF joined = <<>> THEN <<"/">> ELSE joined

\* urljoin on the parsed base b and the parsed reference u
JoinParsed(b, u, url) ==
    LET scheme == IF u.scheme = <<>> THEN b.scheme ELSE u.scheme
    IN  IF scheme # b.scheme \/ scheme \notin UsesRelative THEN url
        ELSE UrlUnparse(
                IF u.netloc # <<>> THEN [u EXCEPT !.scheme = scheme]
                ELSE IF u.path = <<>> /\ u.params = <<>>
                THEN [u EXCEPT !.scheme = scheme, !.netloc = b.netloc, !.path = b.path,
                               !.params = b.params,
                               !.query = IF u.query = <<>> THEN b.query ELSE u.query]
                ELSE [u EXCEPT !.scheme = scheme, !.netloc = b.netloc,
                               !.path = JoinPath(b.path, u.path)])

\* urllib.parse.urljoin(base, url), for references without "." and ".."
\* segments and without empty segments: a reference with a netloc or with
\* another scheme stands for itself, a rooted path replaces the path of the
\* base, any other path replaces its last segment.
UrlJoin(base, url) ==
    IF base = <<>> THEN url
    ELSE IF url = <<>> THEN base
    ELSE JoinParsed(UrlParse(base), UrlParse(url), url)

\* os.path.basename(p)
Basename(p) == SubSeq(p, LastIdx(p, "/", Len(p)) + 1, Len(p))

\* The characters re.sub(r'[^\w\-. ]', '', title) keeps.
WordChars == {"A", "B", "a", "b", "r", "_"} \cup {Digits[i] : i \in 1..Len(Digits)}
KeptChar(c) == c \in WordChars \cup {"-", ".", " "}

\* re.sub(r'[^\w\-. ]', '', title).strip() or "document"
SafeTitle(title) ==
    LET s == Strip(SelectSeq(title, KeptChar))
    IN  IF s = <<>> THEN DOCUMENT ELSE s

\* The file name _download_pdf_advanced chooses at time now.
Filename(title, pdf_url, now) ==
    IF title # <<>>
    THEN SafeTitle(title) \o <<"_">> \o IntToStr(now) \o DOTPDF
    ELSE LET b == Basename(UrlPath(pdf_url))
         IN  IF b # <<>> THEN b
             ELSE DOCUMENT \o <<"_">> \o IntToStr(now) \o DOTPDF

-----------------------------------------------------------------------------
(* The URL classifiers *)

ATTACHMENT == <<"c", "o", "n", "t", "r", "o", "l", "l", "e", "r", "=", "a", "t", "t", "a", "c", "h", "m", "e", "n", "t">>
IDATTACHMENT == <<"i", "d", "_", "a", "t", "t", "a", "c", "h", "m", "e", "n", "t", "=">>

\* 'controller=attachment' in href and 'id_attachment=' in href
HasAttachmentPattern(href) == Contains(href, ATTACHMENT) /\ Contains(href, IDATTACHMENT)

\* path_has_pdf or query_has_pdf
PathOrQueryHasPdf(parsed) ==
    \/ EndsWith(Lower(parsed.path), DOTPDF)
    \/ Contains(Lower(parsed.query), DOTPDF)

\* _is_pdf_link on the stripped string
IsPdfLinkStripped(href) ==
    IF HasAttachmentPattern(href) THEN TRUE
    ELSE IF StartsWith(href, HTTPSCHEME) \/ StartsWith(href, <<"/">>)
    THEN PathOrQueryHasPdf(UrlParse(href))
    ELSE FALSE

\* ShadowMassPDFHarvester._is_pdf_link(href), href a string
IsPdfLink(href) == IsPdfLinkStripped(Strip(href))

\* pdf_indicators of ADEMEHarvester.is_pdf_url
pdf_indicators == {DOTPDF, <<"/", "p", "d", "f">>, <<"d", "o", "w", "n", "l", "o", "a", "d">>, <<"a", "t", "t", "a", "c", "h", "m", "e", "n", "t">>}

\* ADEMEHarvester.is_pdf_url(url)
IsPdfUrl(url) == \E indicator \in pdf_indicators : Contains(Lower(UrlParse(url).path), indicator)

-----------------------------------------------------------------------------
(* The scan of the hyperlinks *)

AnchorTarget_Unresolved(base_url, href) == href

\* urljoin(base_url, href)
AnchorTarget(base_url, href) == UrlJoin(base_url, href)

\* ShadowMassPDFHarvester._extract_from_links, on the href attributes of the
\* <a> elements of the page, in document order
RECURSIVE ExtractFromLinks(_, _, _)
ExtractFromLinks(hrefs, base_url, pdf_urls) ==
    IF hrefs = <<>> THEN pdf_urls
    ELSE LET href == Strip(Head(hrefs))
         IN  IF HasAttachmentPattern(href)
             THEN ExtractFromLinks(Tail(hrefs), base_url,
                                   pdf_urls \cup {AnchorTarget(base_url, href)})
             ELSE IF IsPdfLink(href)
             THEN ExtractFromLinks(Tail(hrefs), base_url,
                                   pdf_urls \cup {AnchorTarget(base_url, href)})
             ELSE ExtractFromLinks(Tail(hrefs), base_url, pdf_urls)

-----------------------------------------------------------------------------
(* The scan of structured data *)

\* What json.loads delivers: a string, a number, a dict (its values, in the
\* order of items()) or a list (its items).
JStr(s) == [kind |-> "str", str |-> s, items |-> <<>>]
JNum(n) == [kind |-> "num", str |-> IntToStr(n), items |-> <<>>]
JDict(values) == [kind |-> "dict", str |-> <<>>, items |-> values]
JList(items) == [kind |-> "list", str |-> <<>>, items |-> items]

\* '.pdf' in value.lower()
HasPdf(s) == Contains(Lower(s), DOTPDF)

\* ShadowMassPDFHarvester._find_pdf_in_json(data, base_url)
RECURSIVE FindPdfInJson(_, _)
FindPdfInJson(data, base_url) ==
    IF data.kind = "dict"
    THEN UNION { IF data.items[i].kind = "str" /\ HasPdf(data.items[i].str)
                 THEN {UrlJoin(base_url, data.items[i].str)}
                 ELSE FindPdfInJson(data.items[i], base_url) : i \in 1..Len(data.items) }
    ELSE IF data.kind = "list"
    THEN UNION { FindPdfInJson(data.items[i], base_url) : i \in 1..Len(data.items) }
    ELSE {}

-----------------------------------------------------------------------------
(* The attachments of a data attribute *)

\* None: what att.get(key) gives when the entry has no such key
JNull == [kind |-> "null", str |-> <<>>, items |-> <<>>]

\* bool(v) for a number, a string or None
Truthy(v) ==
    \/ v.kind = "num" /\ v.str # <<"0">>
    \/ v.kind = "str" /\ v.str # <<>>

ATTACHMENTPATH == <<"/", "i", "n", "d", "e", "x", ".", "p", "h", "p", "?", "c", "o", "n", "t", "r", "o", "l", "l", "e", "r", "=", "a", "t", "t", "a", "c", "h", "m", "e", "n", "t", "&", "i", "d", "_", "a", "t", "t", "a", "c", "h", "m", "e", "n", "t", "=">>

\* build_attachment_url(attach_id)
BuildAttachmentUrl(base_url, attach_id) == UrlJoin(base_url, ATTACHMENTPATH \o attach_id.str)

\* An entry of data['attachments']: a dict with what get('id_attachment') and
\* get('id') give on it, or a value that is not a dict.
Attachment(id_attachment, id) == [isdict |-> TRUE, id_attachment |-> id_attachment, id |-> id]
NotADict == [isdict |-> FALSE, id_attachment |-> JNull, id |-> JNull]

\* for att in data['attachments']: ... inside try / except Exception: pass.  On
\* an entry that is not a dict att.get raises, and the loop is left.
RECURSIVE WalkAttachments(_, _, _)
WalkAttachments(attachments, base_url, pdf_urls) ==
    IF attachments = <<>> THEN pdf_urls
    ELSE LET att == Head(attachments)
         IN  IF ~att.isdict THEN pdf_urls
             ELSE LET att_id == IF Truthy(att.id_attachment) THEN att.id_attachment ELSE att.id
                  IN  WalkAttachments(Tail(attachments), base_url,
                                      IF Truthy(att_id)
                                      THEN pdf_urls \cup {BuildAttachmentUrl(base_url, att_id)}
                                      ELSE pdf_urls)

-----------------------------------------------------------------------------
(* Numbers (streamlit_app-2.py) *)

\* A float: whole.frac times a factor of the conversion table.  The factors
\* are kept as the literals of the table, a literal under 1 / when the table
\* divides by it.
Factor(lit, inv) == [lit |-> lit, inv |-> inv]
One == Factor(<<"1", ".", "0">>, FALSE)
Float(whole, frac, factor) == [whole |-> whole, frac |-> frac, factor |-> factor]

\* What a call of convert_amount or of _guess_factor_value ends in: an
\* exception, None, or a float; key is the field _guess_factor_value chose.
Raised == [raised |-> TRUE, none |-> FALSE, key |-> <<>>, value |-> Float(0, <<>>, One)]
None == [raised |-> FALSE, none |-> TRUE, key |-> <<>>, value |-> Float(0, <<>>, One)]
Value(key, value) == [raised |-> FALSE, none |-> FALSE, key |-> key, value |-> value]
NoResult == None

-----------------------------------------------------------------------------
(* The inputs of the model *)

HOSTA == HTTP \o <<"/", "/", "a">>
HOSTB == HTTP \o <<"/", "/", "b">>

\* Candidate URLs: two with the same basename, and one with an empty basename,
\* which holds '.pdf' without ending in it.
U1 == HOSTA \o <<"/", "r">> \o DOTPDF
U2 == HOSTB \o <<"/", "r">> \o DOTPDF
U3 == HOSTA \o <<"/">> \o DOTPDF \o <<"/">>
URLs == {U1, U2, U3}

\* An attachment URL
UA == HOSTA \o <<"/", "i", "?", "c", "o", "n", "t", "r", "o", "l", "l", "e", "r", "=", "a", "t", "t", "a", "c", "h", "m", "e", "n", "t", "&", "i", "d", "_", "a", "t", "t", "a", "c", "h", "m", "e", "n", "t", "=", "4">>

\* Article pages.
P1 == HOSTA \o <<"/", "1">>
P2 == HOSTA \o <<"/", "2">>
Pages == {P1, P2}

\* Titles: none, a plain one, and one the sanitiser maps onto the plain one.
Titles == {<<>>, <<"A">>, <<"A", "?">>}

\* st.session_state.articles: the link and the title of each article, a subset
\* of [link : Pages, title : Titles].
Articles ==
    { [link |-> P1, title |-> <<"A">>],
      [link |-> P2, title |-> <<"A", "?">>],
      [link |-> P2, title |-> <<>>] }

\* Filename for every title, candidate URL and time of the model, computed once
Filenames ==
    [title \in Titles, pdf_url \in URLs \cup {UA}, now \in 0..MaxClock |->
        Filename(title, pdf_url, now)]

\* extraction_methods, in the order of the list
extraction_methods ==
    << "_extract_from_links", "_extract_from_scripts", "_extract_from_meta",
       "_extract_from_iframes", "_extract_from_data_attributes",
       "_extract_from_json_ld", "_extract_from_prestashop_scripts" >>

Methods == {extraction_methods[i] : i \in 1..Len(extraction_methods)}

\* A parsed page, by what each method does on it: the URLs it has collected,
\* and whether it then raises instead of returning them.
EmptySoup == [m \in Methods |-> [raises |-> FALSE, urls |-> {}]]

SoupLinks ==
    [EmptySoup EXCEPT !["_extract_from_links"] = [raises |-> FALSE, urls |-> {U1, U2}]]

SoupOne ==
    [EmptySoup EXCEPT !["_extract_from_links"] = [raises |-> FALSE, urls |-> {U1}]]

SoupMixed ==
    [EmptySoup EXCEPT
        !["_extract_from_links"] = [raises |-> TRUE, urls |-> {U2}],
        !["_extract_from_scripts"] = [raises |-> FALSE, urls |-> {U1}],
        !["_extract_from_meta"] = [raises |-> FALSE, urls |-> {U1, U3}]]

\* The href attributes of the <a> elements of two pages of article P1: one
\* with a single rooted link to a PDF, one with a padded link, a relative one,
\* an attachment link and a link to something else.
AnchorsOne == <<<<"/", "r", ".", "p", "d", "f">>>>
AnchorsSeveral ==
    <<<<" ", "/", "r", ".", "p", "d", "f", " ">>,
      <<"s", ".", "p", "d", "f">>,
      <<"/", "i", "?", "c", "o", "n", "t", "r", "o", "l", "l", "e", "r", "=", "a", "t", "t", "a", "c", "h", "m", "e", "n", "t", "&", "i", "d", "_", "a", "t", "t", "a", "c", "h", "m", "e", "n", "t", "=", "4">>,
      <<"/", "x">>>>

AnchorSoups == {"anchor", "anchors"}

AnchorsOf(name) == IF name = "anchor" THEN AnchorsOne ELSE AnchorsSeveral

\* The page of article P1 with these <a> elements and nothing else
SoupAnchor(name) ==
    [EmptySoup EXCEPT !["_extract_from_links"] =
        [raises |-> FALSE, urls |-> ExtractFromLinks(AnchorsOf(name), P1, {})]]

\* The pages a fetch can deliver, by name.
Soups == {"empty", "links", "mixed"}

\* BeautifulSoup(response.content, 'html.parser') of the page of that name
SoupOf(name) ==
    CASE name = "links" -> SoupLinks
      [] name = "one" -> SoupOne
      [] name \in AnchorSoups -> SoupAnchor(name)
      [] name = "mixed" -> SoupMixed
      [] OTHER -> EmptySoup

\* resp.content: its first bytes (at most four) and its length.
MinSize == 1000
Magic == <<"%", "P", "D", "F">>
Heads == {Magic, <<"<", "h", "t", "m">>, <<"%", "P", "D">>, <<>>}
Sizes == {0, Len(Magic) - 1, MinSize - 1, MinSize}
Min(a, b) == IF a < b THEN a ELSE b
Contents ==
    {c \in [head : Heads, size : Sizes] : Len(c.head) = Min(c.size, Len(Magic))}

\* What an HTTP GET can end in, other than a body.
RequestErrors == {"network_error", "timeout", "http_error"}

-----------------------------------------------------------------------------
(* The Signature Validator, inline in _download_pdf_advanced *)

\* content.startswith(b'%PDF')
HasPdfSignature(content) == StartsWith(content.head, Magic)

TooSmall_AtMost(size) == size <= MinSize

\* size < 1000
TooSmall(size) == size < MinSize

-----------------------------------------------------------------------------
(* The table harvested_pdfs *)

\* hashlib.md5(pdf_url.encode()).hexdigest(): a value that pdf_url determines
Md5(pdf_url) == <<"md5">> \o pdf_url

\* The tuple of values _log_to_database binds; id is assigned by sqlite and is
\* read nowhere.
Row(pdf_url, title, article_url, status, now) ==
    [url |-> pdf_url, filename |-> title, file_size |-> 0, file_hash |-> Md5(pdf_url),
     source_feed |-> "streamlit_app", harvest_date |-> now, status |-> status,
     article_title |-> title, article_url |-> article_url]

\* The rows of the table for one url
RowsOf(table, u) == {r \in BagToSet(table) : r.url = u}

\* How many rows the table holds for one url
CountOf(table, u) == BagCardinality([r \in RowsOf(table, u) |-> table[r]])

InsertOnly(table, row) == table (+) SetToBag({row})

UpdateStatus(table, row) ==
    IF \E x \in BagToSet(table) : x.url = row.url
    THEN LET old == CHOOSE x \in BagToSet(table) : x.url = row.url
         IN  [r \in {x \in BagToSet(table) : x.url # row.url} |-> table[r]]
             (+) SetToBag({[old EXCEPT !.status = row.status]})
    ELSE table (+) SetToBag({row})

\* INSERT OR REPLACE on a table whose column url is UNIQUE: the rows in conflict
\* on url are deleted, then the row is inserted.
InsertOrReplace(table, row) ==
    [r \in {x \in BagToSet(table) : x.url # row.url} |-> table[r]] (+) SetToBag({row})

-----------------------------------------------------------------------------
(* State *)

NoContent == [head |-> <<>>, size |-> 0]

NoCall == [called |-> FALSE, url |-> <<>>, fetched |-> FALSE, soup |-> "empty", ret |-> <<>>]

\* The frame of a thread that is not in scan_url_for_pdfs.
IdleFrame ==
    [pc |-> "idle", url |-> <<>>, title |-> <<>>, fetched |-> FALSE, soup |-> "empty",
     pdf_urls |-> {}, todo |-> {}, downloaded |-> <<>>, ret |-> <<>>,
     pdf_url |-> <<>>, filename |-> <<>>, content |-> NoContent, cause |-> "",
     ok |-> FALSE, status |-> "", log_ok |-> FALSE,
     \* history of the call, for the properties
     pre |-> [downloaded_urls |-> {}, failed_urls |-> {}, harvested_pdfs |-> EmptyBag],
     attempted |-> {}, verdicts |-> {}, logs |-> {}, prev |-> NoCall]

\* No pure function is being called.
NoPure ==
    [fn |-> "none", arg |-> <<>>, applied |-> FALSE, verdict |-> FALSE, urls |-> {},
     result |-> NoResult]

\* __init__ and init_database on a new database file
NewHarvester ==
    /\ downloaded_urls = {}
    /\ failed_urls = {}
    /\ db_lock = "free"
    /\ harvested_pdfs = EmptyBag
    /\ files = <<>>
    /\ clock = 0
    /\ th = [t \in Threads |-> IdleFrame]
    /\ calls = 0

\* The button 'Scanner Tous les PDFs' has not been pressed.
NoBatch == [scanning |-> FALSE, i |-> 0, called |-> FALSE, total_pdfs |-> 0, scanned |-> <<>>]

\* No export has been made in this script run.
NoReport == [made |-> FALSE, data |-> <<>>, of |-> EmptyBag]

\* update_database is not being called.
NoUpdate == [pc |-> "idle", given |-> <<>>, todo |-> <<>>, pre |-> EmptyBag, count |-> 0, n |-> 0]

\* ADEMEAutoPublisher.__init__ and init_database on a new database file
NewPublisher == articles = EmptyBag /\ updating = NoUpdate

Init == NewHarvester /\ pure = NoPure /\ batch = NoBatch /\ report = NoReport /\ NewPublisher

\* The frame of thread t becomes f.
Frame(t, f) == th' = [th EXCEPT ![t] = f]

\* What the loop resets before the next candidate.
NextCandidate(f) ==
    [f EXCEPT !.pc = "loop", !.pdf_url = <<>>, !.filename = <<>>, !.content = NoContent,
              !.cause = "", !.ok = FALSE, !.status = "", !.log_ok = FALSE]

-----------------------------------------------------------------------------
(* scan_url_for_pdfs *)

\* The call: pdf_urls = set(), then the try block is entered.
Call(t, url, title) ==
    /\ th[t].pc \in {"idle", "done"}
    /\ calls < MaxCalls
    /\ calls' = calls + 1
    /\ Frame(t, [IdleFrame EXCEPT
            !.pc = "fetch", !.url = url, !.title = title,
            !.pre = [downloaded_urls |-> downloaded_urls, failed_urls |-> failed_urls,
                     harvested_pdfs |-> harvested_pdfs],
            !.prev = IF th[t].pc = "done"
                     THEN [called |-> TRUE, url |-> th[t].url, fetched |-> th[t].fetched,
                           soup |-> th[t].soup, ret |-> th[t].ret]
                     ELSE NoCall])
    /\ UNCHANGED <<downloaded_urls, failed_urls, db_lock, harvested_pdfs, files, clock, pure, pubVars>>

ScanFailed_MarksFailed(t) ==
    /\ failed_urls' = failed_urls \cup {th[t].url}
    /\ Frame(t, [th[t] EXCEPT !.pc = "done", !.ret = <<>>])
    /\ UNCHANGED <<downloaded_urls, db_lock, harvested_pdfs, files, clock, calls, pure, batch, report, pubVars>>

ScanFailed_Raises(t) ==
    /\ Frame(t, [th[t] EXCEPT !.pc = "raised"])
    /\ UNCHANGED <<downloaded_urls, failed_urls, db_lock, harvested_pdfs, files, clock, calls, pure, batch, report, pubVars>>

\* except Exception: st.error(...); return []
ScanFailed(t) ==
    /\ Frame(t, [th[t] EXCEPT !.pc = "done", !.ret = <<>>])
    /\ UNCHANGED <<downloaded_urls, failed_urls, db_lock, harvested_pdfs, files, clock, calls, pure, batch, report, pubVars>>

\* self.session.get(url, timeout=20) or raise_for_status() raises.
FetchError(t) ==
    /\ th[t].pc = "fetch"
    /\ \E e \in RequestErrors : ScanFailed(t)

\* The page is fetched and parsed; it is one of these pages.
FetchOkFrom(t, soups) ==
    /\ th[t].pc = "fetch"
    /\ \E soup \in soups :
          Frame(t, [th[t] EXCEPT !.pc = "extract", !.fetched = TRUE, !.soup = soup])
    /\ UNCHANGED <<downloaded_urls, failed_urls, db_lock, harvested_pdfs, files, clock, calls, pure, batch, report, pubVars>>

\* The page is fetched and parsed.
FetchOk(t) == FetchOkFrom(t, Soups)

MethodResult_Partial(soup, m) == soup[m].urls

\* What pdf_urls.update(method(soup, url)) adds inside its try: nothing when the
\* method raises.
MethodResult(soup, m) == IF soup[m].raises THEN {} ELSE soup[m].urls

\* pdf_urls after the loop over extraction_methods, from method i on
RECURSIVE RunMethods(_, _, _)
RunMethods(soup, i, pdf_urls) ==
    IF i > Len(extraction_methods) THEN pdf_urls
    ELSE RunMethods(soup, i + 1, pdf_urls \cup MethodResult(soup, extraction_methods[i]))

\* The loop over extraction_methods, os.makedirs and downloaded = [].
Extract(t) ==
    /\ th[t].pc = "extract"
    /\ LET found == RunMethods(SoupOf(th[t].soup), 1, th[t].pdf_urls)
       IN  Frame(t, [th[t] EXCEPT !.pc = "loop", !.pdf_urls = found, !.todo = found,
                                  !.downloaded = <<>>])
    /\ UNCHANGED <<downloaded_urls, failed_urls, db_lock, harvested_pdfs, files, clock, calls, pure, batch, report, pubVars>>

IsNew_Always(pdf_url) == TRUE

\* if pdf_url not in self.downloaded_urls
IsNew(pdf_url) == pdf_url \notin downloaded_urls

\* for pdf_url in pdf_urls: the next candidate, in the arbitrary order of a set.
LoopNext(t) ==
    /\ th[t].pc = "loop"
    /\ \E u \in th[t].todo :
          Frame(t, IF IsNew(u)
                   THEN [th[t] EXCEPT !.pc = "dl_get", !.todo = @ \ {u}, !.pdf_url = u]
                   ELSE [th[t] EXCEPT !.todo = @ \ {u}])
    /\ UNCHANGED <<downloaded_urls, failed_urls, db_lock, harvested_pdfs, files, clock, calls, pure, batch, report, pubVars>>

\* return downloaded
LoopEnd(t) ==
    /\ th[t].pc = "loop"
    /\ th[t].todo = {}
    /\ Frame(t, [th[t] EXCEPT !.pc = "done", !.ret = th[t].downloaded])
    /\ UNCHANGED <<downloaded_urls, failed_urls, db_lock, harvested_pdfs, files, clock, calls, pure, batch, report, pubVars>>

-----------------------------------------------------------------------------
(* _download_pdf_advanced *)

\* _download_pdf_advanced returns: ok is its result, cause says why.
Returned(t, f, ok, cause) ==
    Frame(t, [f EXCEPT !.pc = "result", !.ok = ok, !.cause = cause])

\* The file name is chosen, then self.session.get(pdf_url, timeout=30) or
\* raise_for_status() raises: except Exception, return False.
DlError(t) ==
    /\ th[t].pc = "dl_get"
    /\ \E e \in RequestErrors :
          Returned(t, [th[t] EXCEPT
                          !.filename = Filenames[th[t].title, th[t].pdf_url, clock],
                          !.attempted = @ \cup {th[t].pdf_url}],
                   FALSE, "request_error")
    /\ UNCHANGED <<downloaded_urls, failed_urls, db_lock, harvested_pdfs, files, clock, calls, pure, batch, report, pubVars>>

\* The file name is chosen and the GET delivers a body; without the signature
\* the body is refused before anything is written.
DlGet(t) ==
    /\ th[t].pc = "dl_get"
    /\ \E content \in Contents :
          LET f == [th[t] EXCEPT
                       !.filename = Filenames[th[t].title, th[t].pdf_url, clock],
                       !.content = content,
                       !.attempted = @ \cup {th[t].pdf_url}]
          IN  IF ~HasPdfSignature(content)
              THEN Returned(t, f, FALSE, "signature")
              ELSE Frame(t, [f EXCEPT !.pc = "dl_write"])
    /\ UNCHANGED <<downloaded_urls, failed_urls, db_lock, harvested_pdfs, files, clock, calls, pure, batch, report, pubVars>>

\* with open(filepath, 'wb') as f: f.write(content)
DlWrite(t) ==
    /\ th[t].pc = "dl_write"
    /\ files' = [n \in DOMAIN files \cup {th[t].filename} |->
                    IF n = th[t].filename
                    THEN [src |-> th[t].pdf_url, body |-> th[t].content]
                    ELSE files[n]]
    /\ Frame(t, [th[t] EXCEPT !.pc = "dl_size"])
    /\ UNCHANGED <<downloaded_urls, failed_urls, db_lock, harvested_pdfs, clock, calls, pure, batch, report, pubVars>>

KeepFile(dir, name) == dir

\* os.remove(filepath)
RemoveFile(dir, name) == [n \in DOMAIN dir \ {name} |-> dir[n]]

\* size = os.path.getsize(filepath); a file below the floor is removed.  A file
\* that is no longer there makes getsize raise: except Exception, return False.
DlSize(t) ==
    /\ th[t].pc = "dl_size"
    /\ IF th[t].filename \notin DOMAIN files
       THEN /\ Returned(t, th[t], FALSE, "os_error")
            /\ UNCHANGED files
       ELSE LET size == files[th[t].filename].body.size
            IN  IF TooSmall(size)
                THEN /\ files' = RemoveFile(files, th[t].filename)
                     /\ Returned(t, th[t], FALSE, "size")
                ELSE /\ Returned(t, th[t], TRUE, "ok")
                     /\ UNCHANGED files
    /\ UNCHANGED <<downloaded_urls, failed_urls, db_lock, harvested_pdfs, clock, calls, pure, batch, report, pubVars>>

-----------------------------------------------------------------------------
(* The two branches of the loop body of scan_url_for_pdfs *)

Accepted_NotRemembered(t) ==
    /\ UNCHANGED downloaded_urls
    /\ Frame(t, [th[t] EXCEPT
            !.pc = "log_acquire", !.status = "success",
            !.downloaded = Append(@, th[t].pdf_url),
            !.verdicts = @ \cup {[url |-> th[t].pdf_url, cause |-> th[t].cause]}])
    /\ UNCHANGED <<failed_urls, db_lock, harvested_pdfs, files, clock, calls, pure, batch, report, pubVars>>

\* self.downloaded_urls.add(pdf_url); downloaded.append(pdf_url); then
\* _log_to_database(..., status='success') is called.
Accepted(t) ==
    /\ downloaded_urls' = downloaded_urls \cup {th[t].pdf_url}
    /\ Frame(t, [th[t] EXCEPT
            !.pc = "log_acquire", !.status = "success",
            !.downloaded = Append(@, th[t].pdf_url),
            !.verdicts = @ \cup {[url |-> th[t].pdf_url, cause |-> th[t].cause]}])
    /\ UNCHANGED <<failed_urls, db_lock, harvested_pdfs, files, clock, calls, pure, batch, report, pubVars>>

Rejected_Reported(t) ==
    /\ failed_urls' = failed_urls \cup {th[t].pdf_url}
    /\ Frame(t, [th[t] EXCEPT
            !.pc = "log_acquire", !.status = "failed",
            !.downloaded = Append(@, th[t].pdf_url),
            !.verdicts = @ \cup {[url |-> th[t].pdf_url, cause |-> th[t].cause]}])
    /\ UNCHANGED <<downloaded_urls, db_lock, harvested_pdfs, files, clock, calls, pure, batch, report, pubVars>>

\* self.failed_urls.add(pdf_url); then _log_to_database(..., status='failed')
\* is called.
Rejected(t) ==
    /\ failed_urls' = failed_urls \cup {th[t].pdf_url}
    /\ Frame(t, [th[t] EXCEPT
            !.pc = "log_acquire", !.status = "failed",
            !.verdicts = @ \cup {[url |-> th[t].pdf_url, cause |-> th[t].cause]}])
    /\ UNCHANGED <<downloaded_urls, db_lock, harvested_pdfs, files, clock, calls, pure, batch, report, pubVars>>

\* if self._download_pdf_advanced(...): ... else: ...
OnAccept(t) == th[t].pc = "result" /\ th[t].ok /\ Accepted(t)

OnReject(t) == th[t].pc = "result" /\ ~th[t].ok /\ Rejected(t)

-----------------------------------------------------------------------------
(* _log_to_database *)

\* with self.db_lock: the lock is taken when it is free.
LogAcquire(t) ==
    /\ th[t].pc = "log_acquire"
    /\ db_lock = "free"
    /\ db_lock' = t
    /\ Frame(t, [th[t] EXCEPT !.pc = "log_write"])
    /\ UNCHANGED <<downloaded_urls, failed_urls, harvested_pdfs, files, clock, calls, pure, batch, report, pubVars>>

\* cursor.execute(INSERT OR REPLACE ...); self.conn.commit()
LogWrite(t) ==
    /\ th[t].pc = "log_write"
    /\ harvested_pdfs' =
          InsertOrReplace(harvested_pdfs,
                          Row(th[t].pdf_url, th[t].title, th[t].url, th[t].status, clock))
    /\ Frame(t, [th[t] EXCEPT !.pc = "log_release", !.log_ok = TRUE])
    /\ UNCHANGED <<downloaded_urls, failed_urls, db_lock, files, clock, calls, pure, batch, report, pubVars>>

\* The store is unavailable: execute raises and nothing is written.
LogWriteError(t) ==
    /\ th[t].pc = "log_write"
    /\ Frame(t, [th[t] EXCEPT !.pc = "log_release", !.log_ok = FALSE])
    /\ UNCHANGED <<downloaded_urls, failed_urls, db_lock, harvested_pdfs, files, clock, calls, pure, batch, report, pubVars>>

LogReturn_Propagates(f) ==
    IF f.log_ok THEN NextCandidate(f) ELSE [f EXCEPT !.pc = "done", !.ret = <<>>]

\* _log_to_database returns to the loop, also after except Exception: st.error.
LogReturn(f) == NextCandidate(f)

LogRelease_KeepsLock(t) ==
    /\ th[t].pc = "log_release"
    /\ Frame(t, LogReturn([th[t] EXCEPT
            !.logs = @ \cup {[url |-> th[t].pdf_url, status |-> th[t].status,
                               ok |-> th[t].log_ok]}]))
    /\ UNCHANGED <<downloaded_urls, failed_urls, db_lock, harvested_pdfs, files, clock, calls, pure, batch, report, pubVars>>

\* The with block is left, which releases the lock, and the call returns.
LogRelease(t) ==
    /\ th[t].pc = "log_release"
    /\ db_lock' = "free"
    /\ Frame(t, LogReturn([th[t] EXCEPT
            !.logs = @ \cup {[url |-> th[t].pdf_url, status |-> th[t].status,
                               ok |-> th[t].log_ok]}]))
    /\ UNCHANGED <<downloaded_urls, failed_urls, harvested_pdfs, files, clock, calls, pure, batch, report, pubVars>>

-----------------------------------------------------------------------------
(* The specification *)

\* Time passes.
Tick ==
    /\ clock < MaxClock
    /\ clock' = clock + 1
    /\ UNCHANGED <<downloaded_urls, failed_urls, db_lock, harvested_pdfs, files, th, calls, pure, batch, report, pubVars>>

\* The steps of a scan after the call, the delivery of the page apart
Body(t) ==
    \/ FetchError(t)
    \/ Extract(t)
    \/ LoopNext(t)
    \/ LoopEnd(t)
    \/ DlError(t)
    \/ DlGet(t)
    \/ DlWrite(t)
    \/ DlSize(t)
    \/ OnAccept(t)
    \/ OnReject(t)
    \/ LogAcquire(t)
    \/ LogWrite(t)
    \/ LogWriteError(t)
    \/ LogRelease(t)

Step(t) ==
    \/ (\E a \in Articles : Call(t, a.link, a.title)) /\ UNCHANGED <<batch, report>>
    \/ FetchOk(t)
    \/ Body(t)

\* The scans of one session, one after the other
Next == Tick \/ \E t \in MainThreads : Step(t)

Spec == Init /\ [][Next]_vars

-----------------------------------------------------------------------------
(* Vocabulary of the properties *)

\* The elements of a list
Range(s) == {s[i] : i \in 1..Len(s)}

\* A list without repetition
NoDuplicates(s) == Cardinality(Range(s)) = Len(s)

\* The call of thread t has returned.
Done(t) == th[t].pc = "done"

\* The URLs whose download the call of thread t has seen accepted
AcceptedUrls(t) == {v.url : v \in {w \in th[t].verdicts : w.cause = "ok"}}

\* The call of thread t has issued an upsert with this status for u, and if the
\* store took it, the table holds one row for u, with that status.
Upserted(t, u, status) ==
    \E l \in th[t].logs :
        /\ l.url = u
        /\ l.status = status
        /\ l.ok => /\ CountOf(harvested_pdfs, u) = 1
                   /\ \A r \in RowsOf(harvested_pdfs, u) : r.status = status

\* The table holds one row for u, and its status is this one.
HasRecord(u, status) ==
    /\ CountOf(harvested_pdfs, u) = 1
    /\ \A r \in RowsOf(harvested_pdfs, u) : r.status = status

\* Every candidate of the page that was not yet downloaded when the call began
\* has had its download attempted.
AllCandidatesAttempted(t) ==
    \A u \in th[t].pdf_urls : u \in th[t].pre.downloaded_urls \/ u \in th[t].attempted

-----------------------------------------------------------------------------
(* Claims *)

\* The call of thread t follows, on the same instance, a call for the same page
\* that was served the same content; both calls have parsed the page.
SecondScanOfSamePage(t) ==
    /\ Done(t)
    /\ th[t].prev.called
    /\ th[t].prev.url = th[t].url
    /\ th[t].prev.fetched /\ th[t].fetched
    /\ th[t].prev.soup = th[t].soup

\* C1: the second of two successive scans of the same unchanged page returns
\* an empty list, and downloads and reports no URL that succeeded in the first.
C1_SecondScanReturnsNothing ==
    \A t \in Threads :
        SecondScanOfSamePage(t) =>
            /\ th[t].ret = <<>>
            /\ Range(th[t].prev.ret) \cap (th[t].attempted \cup Range(th[t].ret)) = {}

\* C2: a download is attempted only for candidates that were in neither
\* downloaded_urls nor failed_urls: a URL that an earlier scan put into
\* failed_urls is not downloaded again.
C2_OnlyUnresolvedDownloaded ==
    \A t \in Threads :
        \A u \in th[t].attempted :
            /\ u \notin th[t].pre.downloaded_urls
            /\ u \notin th[t].pre.failed_urls

\* C3: the table holds at most one row per url, and after an upsert the table
\* took, the one row of that url carries the status, article_title and
\* article_url of that upsert, whatever the table held for the url before.
C3_UpsertReplaces ==
    /\ \A u \in URLs : CountOf(harvested_pdfs, u) <= 1
    /\ \A t \in Threads :
          (th[t].pc = "log_release" /\ th[t].log_ok) =>
              /\ CountOf(harvested_pdfs, th[t].pdf_url) = 1
              /\ \A r \in RowsOf(harvested_pdfs, th[t].pdf_url) :
                    /\ r.status = th[t].status
                    /\ r.article_title = th[t].title
                    /\ r.article_url = th[t].url

\* A second upsert for a url: the table held a row for it with another status,
\* another title and another article, and the upsert has been taken.
C3_Witness ==
    \E t \in Threads :
        /\ th[t].pc = "log_release" /\ th[t].log_ok
        /\ \E r \in RowsOf(th[t].pre.harvested_pdfs, th[t].pdf_url) :
              /\ r.status # th[t].status
              /\ r.article_title # th[t].title
              /\ r.article_url # th[t].url

\* _download_pdf_advanced has returned to thread t after a body was downloaded.
ReturnedOnBody(t) == th[t].pc = "result" /\ th[t].cause # "request_error"

\* C4: on a downloaded body, _download_pdf_advanced returns True exactly when
\* the body starts with the four bytes %PDF and is at least 1000 bytes long.
C4_AcceptsIffSignedAndLarge ==
    \A t \in Threads :
        ReturnedOnBody(t) =>
            (th[t].ok <=>
                /\ Len(th[t].content.head) >= 4
                /\ SubSeq(th[t].content.head, 1, 4) = <<"%", "P", "D", "F">>
                /\ th[t].content.size >= 1000)

\* A body of exactly 1000 bytes with the signature has been accepted.
C4_Witness ==
    \E t \in Threads :
        ReturnedOnBody(t) /\ th[t].ok /\ th[t].content.size = 1000

\* The body downloaded for the current candidate of thread t was refused.
BodyRefused(t) == th[t].cause \in {"signature", "size"}

\* C5: when the downloaded bytes are refused, no file written by the attempt is
\* left in the directory once _download_pdf_advanced has returned, and the scan
\* upserts a record with status 'failed' for the URL.
C5_RefusedLeavesNoFile ==
    \A t \in Threads :
        /\ (th[t].pc = "result" /\ BodyRefused(t)) =>
              /\ ~th[t].ok
              /\ \A n \in DOMAIN files :
                    files[n] # [src |-> th[t].pdf_url, body |-> th[t].content]
              /\ th[t].cause = "size" => th[t].filename \notin DOMAIN files
        /\ (th[t].pc \in {"log_acquire", "log_write", "log_release"} /\ BodyRefused(t)) =>
              th[t].status = "failed"
        /\ (th[t].pc = "log_release" /\ BodyRefused(t) /\ th[t].log_ok) =>
              HasRecord(th[t].pdf_url, "failed")
        /\ Done(t) =>
              \A v \in th[t].verdicts :
                  v.cause \in {"signature", "size"} => Upserted(t, v.url, "failed")

\* A body with the signature but below the floor was written, refused and
\* removed, and the 'failed' record is in the table.
C5_Witness ==
    \E t \in Threads :
        /\ th[t].pc = "log_release" /\ th[t].cause = "size" /\ th[t].log_ok
        /\ th[t].filename \notin DOMAIN files

\* C6: when the page fetch fails, the scan returns an empty list, attempts no
\* download, writes no record, and leaves downloaded_urls, failed_urls and the
\* table as they were before the call.
C6_FetchFailureChangesNothing ==
    \A t \in Threads :
        (Done(t) /\ ~th[t].fetched) =>
            /\ th[t].ret = <<>>
            /\ th[t].attempted = {}
            /\ th[t].logs = {}
            /\ downloaded_urls = th[t].pre.downloaded_urls
            /\ failed_urls = th[t].pre.failed_urls
            /\ harvested_pdfs = th[t].pre.harvested_pdfs

\* A page fetch has failed on an instance that already had records and URLs in
\* both sets.
C6_Witness ==
    \E t \in Threads :
        /\ Done(t) /\ ~th[t].fetched
        /\ th[t].pre.downloaded_urls # {}
        /\ th[t].pre.failed_urls # {}
        /\ th[t].pre.harvested_pdfs # EmptyBag

C8_FailureIsPerUrl ==
    \A t \in Threads :
        /\ \A v \in th[t].verdicts :
              v.cause # "ok" =>
                  /\ v.url \in failed_urls
                  /\ v.url \notin Range(th[t].downloaded)
        /\ (Done(t) /\ th[t].fetched) =>
              /\ AllCandidatesAttempted(t)
              /\ \A v \in th[t].verdicts :
                    v.cause # "ok" =>
                        /\ Upserted(t, v.url, "failed")
                        /\ v.url \notin Range(th[t].ret)

\* A scan has returned after a request error on one candidate and a refused
\* body on another.
C8_Witness ==
    \E t \in Threads :
        /\ Done(t)
        /\ \E v1, v2 \in th[t].verdicts :
              /\ v1.url # v2.url
              /\ v1.cause = "request_error"
              /\ v2.cause \in {"signature", "size"}

\* The methods that raise on a page
Raising(soup) == {m \in Methods : soup[m].raises}

\* C9: a method that raises contributes no candidate and stops nothing: the
\* candidates are the union of the results of the methods that did not raise,
\* and they are downloaded and recorded.
C9_RaisingMethodIsSkipped ==
    \A t \in Threads :
        /\ (th[t].fetched /\ th[t].pc # "extract") =>
              th[t].pdf_urls =
                  UNION {SoupOf(th[t].soup)[m].urls : m \in Methods \ Raising(SoupOf(th[t].soup))}
        /\ (Done(t) /\ th[t].fetched) =>
              /\ AllCandidatesAttempted(t)
              /\ \A u \in th[t].attempted : \E l \in th[t].logs : l.url = u

\* A scan of a page on which a method raised has returned, and the candidates
\* of the other methods were downloaded.
C9_Witness ==
    \E t \in Threads :
        /\ Done(t) /\ th[t].fetched
        /\ Raising(SoupOf(th[t].soup)) # {}
        /\ Cardinality(th[t].attempted) = 2

\* The store has refused an upsert of the call of thread t.
UpsertFailed(t) == \E l \in th[t].logs : ~l.ok

\* C10: a failing upsert does not end the scan: the remaining candidates are
\* still attempted and the scan returns the URLs that were accepted.
C10_UpsertFailureIsContained ==
    \A t \in Threads :
        /\ (UpsertFailed(t) /\ Done(t)) =>
              /\ AllCandidatesAttempted(t)
              /\ Range(th[t].ret) = AcceptedUrls(t)
        /\ (UpsertFailed(t) /\ ~Done(t)) => th[t].pc \notin {"idle", "fetch", "extract"}

\* The upsert of the first candidate failed, the second candidate was attempted
\* all the same, and the scan has returned the accepted URLs.
C10_Witness ==
    \E t \in Threads :
        /\ Done(t)
        /\ Cardinality(th[t].attempted) = 2
        /\ \A l \in th[t].logs : ~l.ok
        /\ th[t].ret # <<>>

-----------------------------------------------------------------------------
(* Concurrent scans: two threads, each with one call of scan_url_for_pdfs on
   the same instance, on two articles whose pages have a link in common *)

ConcArticle(t) == IF t = "t1" THEN [link |-> P1, title |-> <<"A">>]
                  ELSE [link |-> P2, title |-> <<"A", "?">>]

ConcSoup(t) == IF t = "t1" THEN "links" ELSE "one"

StepConc(t) ==
    \/ th[t].pc = "idle" /\ Call(t, ConcArticle(t).link, ConcArticle(t).title) /\ UNCHANGED <<batch, report>>
    \/ FetchOkFrom(t, {ConcSoup(t)})
    \/ Body(t)

NextConc == \E t \in Threads : StepConc(t)

SpecConc == Init /\ [][NextConc]_vars

-----------------------------------------------------------------------------
(* The 'scan all' loop of main(): the articles of the session are scanned one
   after the other, in the script thread *)

\* st.session_state.articles
BatchArticles == <<[link |-> P1, title |-> <<"A">>], [link |-> P2, title |-> <<>>]>>

\* The button is pressed.
BatchStart ==
    /\ ~batch.scanning
    /\ batch.i = 0
    /\ batch' = [batch EXCEPT !.scanning = TRUE, !.i = 1]
    /\ UNCHANGED <<scanVars, pure, report, pubVars>>

\* for i, article in enumerate(articles): scan_url_for_pdfs(article link, dir, title)
BatchCall(t) ==
    /\ batch.scanning
    /\ ~batch.called
    /\ batch.i <= Len(BatchArticles)
    /\ Call(t, BatchArticles[batch.i].link, BatchArticles[batch.i].title)
    /\ batch' = [batch EXCEPT !.called = TRUE,
                              !.scanned = Append(@, BatchArticles[batch.i].link)]
    /\ UNCHANGED report

\* total_pdfs += len(pdfs_found), and the loop goes on to the next article.
BatchReturn(t) ==
    /\ batch.called
    /\ Done(t)
    /\ batch' = [batch EXCEPT !.called = FALSE, !.i = @ + 1,
                              !.total_pdfs = @ + Len(th[t].ret)]
    /\ UNCHANGED <<scanVars, pure, report, pubVars>>

\* After the last article: scanning = False, st.rerun()
BatchEnd ==
    /\ batch.scanning
    /\ ~batch.called
    /\ batch.i > Len(BatchArticles)
    /\ batch' = [batch EXCEPT !.scanning = FALSE]
    /\ UNCHANGED <<scanVars, pure, report, pubVars>>

StepBatch(t) ==
    \/ BatchCall(t)
    \/ BatchReturn(t)
    \/ FetchOk(t)
    \/ Body(t)

NextBatch == Tick \/ BatchStart \/ BatchEnd \/ \E t \in MainThreads : StepBatch(t)

\* The script thread runs on: every request has a timeout and db_lock has no
\* other taker.  The button is pressed.
SpecBatch == Init /\ [][NextBatch]_vars /\ WF_vars(NextBatch)

\* The links of the articles, in list order
BatchLinks == [i \in 1..Len(BatchArticles) |-> BatchArticles[i].link]

\* The loop is over.
BatchOver == ~batch.scanning /\ batch.i > Len(BatchArticles)

-----------------------------------------------------------------------------
(* Scans of the page of article P1, whose candidates are those of its <a>
   elements *)

StepAnchor(t) ==
    \/ Call(t, P1, <<"A">>) /\ UNCHANGED <<batch, report>>
    \/ FetchOkFrom(t, AnchorSoups)
    \/ Body(t)

NextAnchor == Tick \/ \E t \in MainThreads : StepAnchor(t)

SpecAnchor == Init /\ [][NextAnchor]_vars

-----------------------------------------------------------------------------
(* Restarts: the process ends between two scans and a new
   ShadowMassPDFHarvester is constructed on the same db_path, with the same
   download directory *)

\* __init__ and init_database on the database file of the instance before:
\* the sets are empty, the lock is new, CREATE TABLE IF NOT EXISTS leaves the
\* table as it is.  The frame keeps, for the properties, what the instance
\* before had.
Restart ==
    /\ \A t \in Threads : th[t].pc \in {"idle", "done"}
    /\ downloaded_urls' = {}
    /\ failed_urls' = {}
    /\ db_lock' = "free"
    /\ th' = [t \in Threads |->
                [IdleFrame EXCEPT
                    !.pre = [downloaded_urls |-> downloaded_urls, failed_urls |-> failed_urls,
                             harvested_pdfs |-> harvested_pdfs]]]
    /\ UNCHANGED <<harvested_pdfs, files, clock, calls, pure, batch, report, pubVars>>

StepRestart(t) ==
    \/ Call(t, P1, <<"A">>) /\ UNCHANGED <<batch, report>>
    \/ FetchOkFrom(t, {"one", "links"})
    \/ Body(t)

NextRestart == Tick \/ Restart \/ \E t \in MainThreads : StepRestart(t)

SpecRestart == Init /\ [][NextRestart]_vars

-----------------------------------------------------------------------------
(* The export of main(): the report is built in the script thread, after the
   scans of the script run, from what get_downloaded_pdfs reads *)

Selected_AnyStatus(table) == BagToSet(table)

\* WHERE status="success"
Selected(table) == {r \in BagToSet(table) : r.status = "success"}

\* ORDER BY harvest_date DESC: the rows, each once, in an order of descending
\* harvest_date; rows of the same date come in any order.
Orderings(rows) ==
    {s \in [1..Cardinality(rows) -> rows] :
        \A i, j \in DOMAIN s :
            i < j => s[i] # s[j] /\ s[i].harvest_date >= s[j].harvest_date}

\* SELECT url, filename, article_title, article_url, harvest_date
Columns(r) == <<r.url, r.filename, r.article_title, r.article_url, r.harvest_date>>

\* ShadowMassPDFHarvester.get_downloaded_pdfs(): what cursor.fetchall() can give
get_downloaded_pdfs(table) ==
    {[i \in DOMAIN s |-> Columns(s[i])] : s \in Orderings(Selected(table))}

\* pdf_url, filename, article_title, article_url, harvest_date = pdf; the dict
\* appended to report_data
ReportEntry(pdf) ==
    [pdf_url |-> pdf[1], filename |-> pdf[2], article_title |-> pdf[3],
     article_url |-> pdf[4], harvest_date |-> pdf[5]]

\* report_data for these rows; without rows there is nothing to export.
ReportOf(downloaded_pdfs, table) ==
    IF downloaded_pdfs # <<>>
    THEN [made |-> TRUE,
          data |-> [i \in DOMAIN downloaded_pdfs |-> ReportEntry(downloaded_pdfs[i])],
          of |-> table]
    ELSE [NoReport EXCEPT !.of = table]

\* The section 'Export' of main()
Export ==
    /\ \A t \in MainThreads : th[t].pc \in {"idle", "done"}
    /\ \E downloaded_pdfs \in get_downloaded_pdfs(harvested_pdfs) :
          report' = ReportOf(downloaded_pdfs, harvested_pdfs)
    /\ UNCHANGED <<scanVars, pure, batch, pubVars>>

\* A scan is asked for in a new script run, which has no report yet.
StepExport(t) ==
    \/ Call(t, P1, <<"A">>) /\ report' = NoReport /\ UNCHANGED batch
    \/ FetchOkFrom(t, {"links", "mixed"})
    \/ Body(t)

NextExport == Tick \/ Export \/ \E t \in MainThreads : StepExport(t)

SpecExport == Init /\ [][NextExport]_vars

-----------------------------------------------------------------------------
(* ADEMEAutoPublisher (streamlit_app-3.py): the table articles and
   update_database, on the connection of one publisher *)

\* At most MaxUpdates calls of update_database are made.
MaxUpdates == 2

\* The links and titles of the feed items; a <link> without text gives ''.
FeedLinks == {P1, P2, <<>>}
FeedTitles == {<<"A">>, <<"B">>}

\* ADEMEArticle(title, theme, link, description, published, emoji)
ADEMEArticle(title, link) ==
    [title |-> title, theme |-> "Air", link |-> link, description |-> "d",
     published |-> "p", emoji |-> "e"]

FeedArticles == {ADEMEArticle(title, link) : title \in FeedTitles, link \in FeedLinks}

\* What fetch_all_articles returns: a list, in which a link may come twice
ArticleLists ==
    {<<>>} \cup {<<x>> : x \in FeedArticles} \cup {<<x, y>> : x \in FeedArticles, y \in FeedArticles}

\* The values of the INSERT; id is assigned by sqlite and is read nowhere.
ArticleRow(article, now) ==
    [title |-> article.title, theme |-> article.theme, link |-> article.link,
     description |-> article.description, published |-> article.published,
     emoji |-> article.emoji, last_updated |-> now, is_active |-> 1]

\* The rows of the table for one link, and how many they are
RowsOfLink(table, link) == {r \in BagToSet(table) : r.link = link}
CountOfLink(table, link) == BagCardinality([r \in RowsOfLink(table, link) |-> table[r]])

Inactive(r) == [r EXCEPT !.is_active = 0]

Deactivate_Not(table) == table

\* UPDATE articles SET is_active = 0
Deactivate(table) == BagOfAll(Inactive, table)

\* INSERT OR REPLACE on a table whose column link is UNIQUE
ReplaceArticle(table, row) ==
    [r \in {x \in BagToSet(table) : x.link # row.link} |-> table[r]] (+) SetToBag({row})

\* update_database(articles) is called: the cursor, and the UPDATE.
UpdateBegin ==
    /\ updating.pc # "insert"
    /\ updating.n < MaxUpdates
    /\ \E given \in ArticleLists :
          updating' = [pc |-> "insert", given |-> given, todo |-> given, pre |-> articles,
                       count |-> 0, n |-> updating.n + 1]
    /\ articles' = Deactivate(articles)
    /\ UNCHANGED <<scanVars, pure, batch, report>>

\* for article in articles: INSERT OR REPLACE ... VALUES (..., datetime.now(), 1)
UpdateInsert ==
    /\ updating.pc = "insert"
    /\ updating.todo # <<>>
    /\ articles' = ReplaceArticle(articles, ArticleRow(Head(updating.todo), clock))
    /\ updating' = [updating EXCEPT !.todo = Tail(@)]
    /\ UNCHANGED <<scanVars, pure, batch, report>>

\* self.conn.commit(); return len(articles)
UpdateCommit ==
    /\ updating.pc = "insert"
    /\ updating.todo = <<>>
    /\ updating' = [updating EXCEPT !.pc = "done", !.count = Len(updating.given)]
    /\ UNCHANGED <<scanVars, pure, batch, report, articles>>

\* cursor.execute raises (the database is locked by another connection): the
\* exception leaves update_database, and what was executed so far stays in the
\* open transaction of the connection.
UpdateError ==
    /\ updating.pc = "insert"
    /\ updating.todo # <<>>
    /\ updating' = [updating EXCEPT !.pc = "raised"]
    /\ UNCHANGED <<scanVars, pure, batch, report, articles>>

NextPublisher == Tick \/ UpdateBegin \/ UpdateInsert \/ UpdateCommit \/ UpdateError

SpecPublisher == Init /\ [][NextPublisher]_vars

-----------------------------------------------------------------------------
(* Calls of the methods that read no state: the argument is drawn when the
   call is made, the result is what the method computes on it *)

\* References as they stand in a page: with or without scheme and host, rooted
\* or relative, with a query, a fragment or parameters, with surrounding blanks.
HrefPads == {<<>>, <<" ">>}
HrefPrefixes ==
    {<<>>,
     <<"/">>,
     <<"/", "/", "h", "/">>,
     <<"h", "t", "t", "p", ":", "/", "/", "h", "/">>,
     <<"h", "t", "t", "p", "s", ":", "/", "/", "h", "/">>,
     <<"H", "T", "T", "P", ":", "/", "/", "h", "/">>,
     <<"f", "t", "p", ":", "/", "/", "h", "/">>,
     <<"d", "/">>}
HrefFiles ==
    {<<"r", ".", "p", "d", "f">>,
     <<"r", ".", "P", "D", "F">>,
     <<"r", ".", "p", "d", "f", "x">>,
     <<"r">>,
     <<"p", "d", "f", "/", "r">>,
     <<"i", "n", "d", "e", "x", ".", "p", "h", "p">>}
HrefTails ==
    {<<>>,
     <<"?", "f", "=", "x", ".", "p", "d", "f">>,
     <<"?", "f", "=", "x">>,
     <<"?", "c", "o", "n", "t", "r", "o", "l", "l", "e", "r", "=", "a", "t", "t", "a", "c", "h", "m", "e", "n", "t", "&", "i", "d", "_", "a", "t", "t", "a", "c", "h", "m", "e", "n", "t", "=", "4">>,
     <<"#", "x", ".", "p", "d", "f">>,
     <<";", "x", ".", "p", "d", "f">>}
Hrefs ==
    {pad \o pre \o file \o tail \o pad :
        pad \in HrefPads, pre \in HrefPrefixes, file \in HrefFiles, tail \in HrefTails}

\* A call that has not been evaluated yet
PureCall(fn, arg) ==
    [fn |-> fn, arg |-> arg, applied |-> FALSE, verdict |-> FALSE, urls |-> {},
     result |-> NoResult]

\* self._is_pdf_link(href)
Apply_is_pdf_link ==
    /\ pure.fn = "_is_pdf_link"
    /\ ~pure.applied
    /\ pure' = [pure EXCEPT !.applied = TRUE, !.verdict = IsPdfLink(pure.arg)]
    /\ UNCHANGED <<scanVars, batch, report, pubVars>>

\* self.is_pdf_url(url) of ADEMEHarvester
Apply_is_pdf_url ==
    /\ pure.fn = "is_pdf_url"
    /\ ~pure.applied
    /\ pure' = [pure EXCEPT !.applied = TRUE, !.verdict = IsPdfUrl(pure.arg)]
    /\ UNCHANGED <<scanVars, batch, report, pubVars>>

\* The page the document stands in
BaseUrl == P1

\* JSON documents: strings with and without '.pdf', a number, and dicts and
\* lists of them, nested up to two levels.
JsonLeaves == {JStr(<<"r", ".", "p", "d", "f">>), JStr(<<"/", "s", ".", "P", "D", "F">>), JStr(<<"x">>), JNum(7)}
JsonFlat ==
    {JDict(<<x>>) : x \in JsonLeaves} \cup {JList(<<x>>) : x \in JsonLeaves}
    \cup {JDict(<<x, y>>) : x \in JsonLeaves, y \in JsonLeaves}
    \cup {JList(<<x, y>>) : x \in JsonLeaves, y \in JsonLeaves}
JsonNested == {JDict(<<c>>) : c \in JsonFlat} \cup {JList(<<c>>) : c \in JsonFlat}
JsonDocs == JsonLeaves \cup JsonFlat \cup JsonNested

\* self._find_pdf_in_json(data, base_url), data = json.loads(script.string)
Apply_find_pdf_in_json ==
    /\ pure.fn = "_find_pdf_in_json"
    /\ ~pure.applied
    /\ pure' = [pure EXCEPT !.applied = TRUE, !.urls = FindPdfInJson(pure.arg, BaseUrl)]
    /\ UNCHANGED <<scanVars, batch, report, pubVars>>

\* Lists of attachments: entries with and without each id key, with ids that
\* are numbers (0 among them) and strings, and entries that are not dicts.
AttachmentIds == {JNull, JNum(0), JNum(4), JStr(<<"5">>)}
Ids == {JNull, JNum(7)}
Attachments == {Attachment(a, b) : a \in AttachmentIds, b \in Ids} \cup {NotADict}
AttachmentLists ==
    {<<>>} \cup {<<x>> : x \in Attachments} \cup {<<x, y>> : x \in Attachments, y \in Attachments}

\* The walk of data['attachments'] in _extract_from_data_attributes
Apply_extract_from_data_attributes ==
    /\ pure.fn = "_extract_from_data_attributes"
    /\ ~pure.applied
    /\ pure' = [pure EXCEPT !.applied = TRUE, !.urls = WalkAttachments(pure.arg, BaseUrl, {})]
    /\ UNCHANGED <<scanVars, batch, report, pubVars>>

-----------------------------------------------------------------------------
(* Unit conversion (streamlit_app-2.py) *)

KWH == <<"k", "W", "h">>
GJ == <<"G", "J">>
MWH == <<"M", "W", "h">>
LITRES == <<"L">>
KG == <<"k", "g">>

\* _CONV: the factor of each pair (from, to) of the table
CONV ==
    (<<KWH, GJ>> :> Factor(<<"2", "7", "7", ".", "7", "7", "7", "7", "7", "7", "7", "7", "7", "8">>, TRUE))
    @@ (<<GJ, KWH>> :> Factor(<<"2", "7", "7", ".", "7", "7", "7", "7", "7", "7", "7", "7", "7", "8">>, FALSE))
    @@ (<<MWH, KWH>> :> Factor(<<"1", "0", "0", "0", ".", "0">>, FALSE))
    @@ (<<KWH, MWH>> :> Factor(<<"1", "0", "0", "0", ".", "0">>, TRUE))
    @@ (<<LITRES, LITRES>> :> One)
    @@ (<<KG, KG>> :> One)

\* repl of normalize_unit
repl ==
    (<<"g", "j", " ", "p", "c", "i">> :> <<"g", "j">>)
    @@ (<<"k", "w", "h", " ", "p", "c", "i">> :> <<"k", "w", "h">>)
    @@ (<<"m", "w", "h", " ", "p", "c", "i">> :> <<"m", "w", "h">>)
    @@ (<<"k", "i", "l", "o", "w", "a", "t", "t", "h", "e", "u", "r", "e">> :> <<"k", "w", "h">>)
    @@ (<<"g", "i", "g", "a", "j", "o", "u", "l", "e">> :> <<"g", "j">>)
    @@ (<<"l", "i", "t", "r", "e">> :> <<"l">>)

\* repl.get(u2, u2)
ReplGet(u2) == IF u2 \in DOMAIN repl THEN repl[u2] ELSE u2

\* normalize_unit(u); None and "" are the empty text
normalize_unit(u) == IF u = <<>> THEN <<>> ELSE ReplGet(Lower(Strip(u)))

\* The two returns and the raise of convert_amount, on the key
ConvertKey(amount, key) ==
    IF key \in DOMAIN CONV THEN Value(<<>>, Float(amount, <<>>, CONV[key]))
    ELSE IF key[1] = key[2] THEN Value(<<>>, Float(amount, <<>>, One))
    ELSE Raised

\* convert_amount(amount, from_unit, to_unit)
convert_amount(amount, from_unit, to_unit) ==
    ConvertKey(amount, <<normalize_unit(from_unit), normalize_unit(to_unit)>>)

\* Units as a caller writes them: those of the table, other spellings of
\* them, a unit the table does not have, and no unit.
Units ==
    {KWH, GJ, MWH, LITRES, KG, <<"k", "w", "h">>, <<" ", "G", "J", " ">>, <<"l", "i", "t", "r", "e">>, <<"k", "W", "h", " ", "P", "C", "I">>, <<"m", "3">>, <<>>}
Amounts == {1, 3}

\* convert_amount is called.
Apply_convert_amount ==
    /\ pure.fn = "convert_amount"
    /\ ~pure.applied
    /\ pure' = [pure EXCEPT
            !.applied = TRUE,
            !.result = convert_amount(pure.arg.amount, pure.arg.from_unit, pure.arg.to_unit)]
    /\ UNCHANGED <<scanVars, batch, report, pubVars>>

-----------------------------------------------------------------------------
(* The factor value of a line (streamlit_app-2.py) *)

\* _NUMERIC_FIELDS_HINTS
NUMERIC_FIELDS_HINTS ==
    {<<"v", "a", "l", "e", "u", "r">>,
     <<"v", "a", "l", "e", "u", "r", "_", "c", "o", "2">>,
     <<"c", "o", "2">>,
     <<"k", "g", "c", "o", "2">>,
     <<"k", "g", "c", "o", "2", "e">>,
     <<"k", "g", "c", "o", "2", "e", "q">>,
     <<"t", "o", "t", "a", "l">>,
     <<"t", "o", "t", "a", "l", " ", "p", "o", "s", "t", "e">>}
CO2 == <<"c", "o", "2">>

\* An item of line.items(): a key with a number, or a key with a string
NumField(k, v) == [key |-> k, isnum |-> TRUE, num |-> v, str |-> <<>>]
StrField(k, v) == [key |-> k, isnum |-> FALSE, num |-> 0, str |-> v]

\* any(h in lk for h in _NUMERIC_FIELDS_HINTS)
Hinted(k) == \E h \in NUMERIC_FIELDS_HINTS : Contains(Lower(k), h)

\* score
Score(k) == (IF Hinted(k) THEN 10 ELSE 0) + (IF Contains(Lower(k), CO2) THEN 5 ELSE 0)

\* float(v) * (100 - score) + 0.00001, counted in 0.00001
Adjusted(field) == field.num * (100 - Score(field.key)) * 100000 + 1

\* The items that become candidates
Numeric(line) == {i \in 1..Len(line) : line[i].isnum}

\* candidates.sort(key=lambda t: t[1]); candidates[0]: the sort is stable, so
\* among the least adjusted values the first item wins.
BestIndex(line) ==
    CHOOSE i \in Numeric(line) :
        \A j \in Numeric(line) :
            \/ Adjusted(line[i]) < Adjusted(line[j])
            \/ Adjusted(line[i]) = Adjusted(line[j]) /\ i <= j

DigitSet == {Digits[i] : i \in 1..Len(Digits)}
DigitVal(c) == CHOOSE d \in 0..9 : Digits[d + 1] = c

\* int(s) for a text of digits
RECURSIVE StrToInt(_)
StrToInt(s) ==
    IF s = <<>> THEN 0
    ELSE StrToInt(SubSeq(s, 1, Len(s) - 1)) * 10 + DigitVal(s[Len(s)])

\* The decimals without the zeros at their end, which float() does not tell apart
RECURSIVE StripZeros(_)
StripZeros(s) ==
    IF s # <<>> /\ s[Len(s)] = "0" THEN StripZeros(SubSeq(s, 1, Len(s) - 1)) ELSE s

\* The index after the digits that begin at i
RECURSIVE RunEnd(_, _)
RunEnd(s, i) == IF i <= Len(s) /\ s[i] \in DigitSet THEN RunEnd(s, i + 1) ELSE i

\* float(m.group(1).replace(",", ".")) for the match of
\* [0-9]+(?:[.,][0-9]+)? that begins at i and whose first digits end before j
MatchFloat(s, i, j) ==
    IF j + 1 <= Len(s) /\ s[j] \in {".", ","} /\ s[j + 1] \in DigitSet
    THEN Float(StrToInt(SubSeq(s, i, j - 1)),
               StripZeros(SubSeq(s, j + 1, RunEnd(s, j + 1) - 1)), One)
    ELSE Float(StrToInt(SubSeq(s, i, j - 1)), <<>>, One)

\* re.search finds a match: the string has a digit.
HasNumber(s) == FirstIdx(s, DigitSet, 1) <= Len(s)

\* The float of the leftmost match
SearchNumber(s) == MatchFloat(s, FirstIdx(s, DigitSet, 1), RunEnd(s, FirstIdx(s, DigitSet, 1)))

\* The second loop over line.items(): the first string with a number, else None
RECURSIVE FirstStringNumber(_)
FirstStringNumber(line) ==
    IF line = <<>> THEN None
    ELSE IF ~Head(line).isnum /\ HasNumber(Head(line).str)
    THEN Value(Head(line).key, SearchNumber(Head(line).str))
    ELSE FirstStringNumber(Tail(line))

\* _guess_factor_value(line)
GuessFactorValue(line) ==
    IF Numeric(line) = {} THEN FirstStringNumber(line)
    ELSE Value(line[BestIndex(line)].key, Float(line[BestIndex(line)].num, <<>>, One))

\* Lines of the factor dataset: up to two fields, with keys that carry a hint
\* and keys that do not, numbers of either sign and strings with and without a
\* number.
FieldKeys == {<<"v", "a", "l", "e", "u", "r">>, <<"C", "O", "2">>, <<"T", "o", "t", "a", "l">>, <<"i", "d">>, <<"n", "o", "m">>}
FieldNumbers == {0 - 1, 0, 1, 5}
FieldStrings == {<<"x">>, <<"1", "2", ",", "5", " ", "k", "g">>, <<"a", "1", ".", "5", "0", "b", "2">>}
Fields ==
    {NumField(k, v) : k \in FieldKeys, v \in FieldNumbers}
    \cup {StrField(k, v) : k \in FieldKeys, v \in FieldStrings}
Lines ==
    {<<>>} \cup {<<x>> : x \in Fields}
    \cup {l \in {<<x, y>> : x \in Fields, y \in Fields} : l[1].key # l[2].key}

\* _guess_factor_value is called.
Apply_guess_factor_value ==
    /\ pure.fn = "_guess_factor_value"
    /\ ~pure.applied
    /\ pure' = [pure EXCEPT !.applied = TRUE, !.result = GuessFactorValue(pure.arg)]
    /\ UNCHANGED <<scanVars, batch, report, pubVars>>

PureCalls ==
    {PureCall("_is_pdf_link", h) : h \in Hrefs}
    \cup {PureCall("is_pdf_url", h) : h \in Hrefs}
    \cup {PureCall("_find_pdf_in_json", d) : d \in JsonDocs}
    \cup {PureCall("_extract_from_data_attributes", l) : l \in AttachmentLists}
    \cup {PureCall("convert_amount", [amount |-> a, from_unit |-> f, to_unit |-> u]) :
            a \in Amounts, f \in Units, u \in Units}
    \cup {PureCall("_guess_factor_value", l) : l \in Lines}

InitPure ==
    NewHarvester /\ batch = NoBatch /\ report = NoReport /\ NewPublisher /\ pure \in PureCalls

NextPure ==
    \/ Apply_is_pdf_link
    \/ Apply_is_pdf_url
    \/ Apply_find_pdf_in_json
    \/ Apply_extract_from_data_attributes
    \/ Apply_convert_amount
    \/ Apply_guess_factor_value

SpecPure == InitPure /\ [][NextPure]_vars

-----------------------------------------------------------------------------
(* C11 *)

\* The thread is in, or at, a network call: the page fetch or a PDF download.
NetworkCall(t) == th[t].pc \in {"fetch", "dl_get"}

\* The step writes the table, and the thread that takes it holds db_lock.
WriteUnderLock(t) ==
    /\ db_lock = t
    /\ db_lock' = t
    /\ th[t].pc = "log_write"
    /\ th'[t].pc = "log_release"

\* C11: whenever the table harvested_pdfs changes, the change is made by a
\* thread that holds db_lock before and after the write; and a thread that
\* holds db_lock is never in a page fetch or a PDF download.
C11_WritesUnderLockNoNetworkUnderLock ==
    /\ [](\A t \in Threads : db_lock = t => ~NetworkCall(t))
    /\ [][harvested_pdfs' # harvested_pdfs => \E t \in Threads : WriteUnderLock(t)]_vars

\* A thread holds the lock with its row written while the other thread is in a
\* download.
C11_Witness ==
    \E t \in Threads, o \in Threads :
        /\ o # t
        /\ db_lock = t
        /\ th[t].pc = "log_release"
        /\ th[t].log_ok
        /\ th[o].pc = "dl_get"

-----------------------------------------------------------------------------
(* C12 *)

\* The call of _log_to_database of thread t for u with this status has had its
\* row taken by the store: an earlier one of its scan, or the one that still
\* holds the lock.
Wrote(t, u, status) ==
    \/ \E l \in th[t].logs : l.url = u /\ l.status = status /\ l.ok
    \/ /\ th[t].pc = "log_release"
       /\ th[t].log_ok
       /\ th[t].pdf_url = u
       /\ th[t].status = status

\* C12: with two threads logging on one instance, the table never holds more
\* than one row for a url; every row is the complete tuple of one call that
\* wrote it (url, title, article, status of the same caller); and while a
\* caller still holds db_lock after its write, the only row for its url is
\* its own tuple: the last to take the lock wins.
C12_OneCompleteRowOfLastWriter ==
    /\ \A u \in URLs :
          /\ CountOf(harvested_pdfs, u) <= 1
          /\ \A r \in RowsOf(harvested_pdfs, u) :
                \E t \in Threads :
                    /\ Wrote(t, u, r.status)
                    /\ r = Row(u, th[t].title, th[t].url, r.status, r.harvest_date)
    /\ \A t \in Threads :
          th[t].pc = "log_release" /\ th[t].log_ok =>
              /\ CountOf(harvested_pdfs, th[t].pdf_url) = 1
              /\ RowsOf(harvested_pdfs, th[t].pdf_url)
                    = {Row(th[t].pdf_url, th[t].title, th[t].url, th[t].status, clock)}

\* A thread has just written its row for a url for which the other thread had
\* written a row with another status.
C12_Witness ==
    \E t \in Threads, o \in Threads :
        /\ o # t
        /\ th[t].pc = "log_release"
        /\ th[t].log_ok
        /\ \E l \in th[o].logs : l.url = th[t].pdf_url /\ l.ok /\ l.status # th[t].status

-----------------------------------------------------------------------------
(* C13 *)

\* C13: once 'scan all' is started the loop comes to its end; at every moment
\* the articles scanned so far are the first ones of the list, each once and in
\* list order; and when the loop is over every article has been scanned, with
\* one call of scan_url_for_pdfs per article.
C13_BatchScansEveryArticleOnce ==
    /\ <>BatchOver
    /\ [](/\ Len(batch.scanned) <= Len(BatchLinks)
          /\ batch.scanned = SubSeq(BatchLinks, 1, Len(batch.scanned)))
    /\ [](BatchOver => batch.scanned = BatchLinks /\ calls = Len(BatchArticles))

\* The loop is over, the page of the first article could not be fetched and
\* the page of the last one was scanned.
C13_Witness ==
    /\ BatchOver
    /\ \E t \in MainThreads :
          /\ th[t].prev.called
          /\ ~th[t].prev.fetched
          /\ th[t].fetched
          /\ th[t].url = BatchLinks[Len(BatchLinks)]

-----------------------------------------------------------------------------
(* C14 *)

\* The path of u ends in '.pdf', in any case of the letters.
PathEndsInPdf(u) == EndsWith(Lower(UrlParse(u).path), DOTPDF)

\* The query of u contains '.pdf', in any case of the letters.
QueryHasPdf(u) == Contains(Lower(UrlParse(u).query), DOTPDF)

\* C14: _is_pdf_link(u) is true exactly when u, surrounding blanks apart, has
\* the attachment pattern, or a path that ends in '.pdf', or a query that
\* contains '.pdf', whatever the form of u.
C14_ClassifierIffPatternPathOrQuery ==
    pure.fn = "_is_pdf_link" /\ pure.applied =>
        LET u == Strip(pure.arg)
        IN  pure.verdict = (HasAttachmentPattern(u) \/ PathEndsInPdf(u) \/ QueryHasPdf(u))

-----------------------------------------------------------------------------
(* C15 *)

\* C15: is_pdf_url of ADEMEHarvester is true for every URL that has the
\* attachment pattern, whatever its path.
C15_AttachmentPatternIsPdfUrl ==
    pure.fn = "is_pdf_url" /\ pure.applied /\ HasAttachmentPattern(pure.arg) => pure.verdict

-----------------------------------------------------------------------------
(* C16 *)

\* C16: every URL whose download a scan attempts satisfies _is_pdf_link.
C16_AttemptedSatisfyClassifier ==
    \A t \in Threads : \A u \in th[t].attempted : IsPdfLink(u)

-----------------------------------------------------------------------------
(* C17 *)

\* The strings of a JSON document, at any depth, values of dicts and items of
\* lists alike
RECURSIVE StringLeaves(_)
StringLeaves(data) ==
    IF data.kind = "str" THEN {data.str}
    ELSE UNION { StringLeaves(data.items[i]) : i \in 1..Len(data.items) }

\* C17: the scan of a JSON document yields the absolute form of every string
\* of the document that contains '.pdf', at any depth, value of a dict or item
\* of a list, and nothing else.
C17_EveryPdfStringLeafIsYielded ==
    pure.fn = "_find_pdf_in_json" /\ pure.applied =>
        pure.urls = {UrlJoin(BaseUrl, x) : x \in {y \in StringLeaves(pure.arg) : HasPdf(y)}}

-----------------------------------------------------------------------------
(* C18 *)

\* The entry is a dict with an id key: id_attachment, or else id.
HasIdField(att) == att.isdict /\ (att.id_attachment # JNull \/ att.id # JNull)

\* The id of the entry: id_attachment, else id
IdField(att) == IF att.id_attachment # JNull THEN att.id_attachment ELSE att.id

\* C18: the walk of an attachments list yields the attachment URL of every
\* entry that has an id key, built from id_attachment or else from id, for
\* every id value and whatever the other entries are, and nothing else.
C18_OneUrlPerEntryWithId ==
    pure.fn = "_extract_from_data_attributes" /\ pure.applied =>
        pure.urls = {BuildAttachmentUrl(BaseUrl, IdField(pure.arg[i])) :
                        i \in {j \in 1..Len(pure.arg) : HasIdField(pure.arg[j])}}

-----------------------------------------------------------------------------
(* C19 *)

\* The call of thread t has fetched a page of <a> elements and has run the
\* extraction methods on it.
AnchorsScanned(t) ==
    /\ th[t].fetched
    /\ th[t].soup \in AnchorSoups
    /\ th[t].pc \notin {"idle", "fetch", "extract"}

\* The hrefs of the page that have the attachment pattern or satisfy
\* _is_pdf_link, surrounding blanks apart
PdfAnchors(name) ==
    {h \in {Strip(x) : x \in Range(AnchorsOf(name))} : HasAttachmentPattern(h) \/ IsPdfLink(h)}

\* The call of thread t has had the download of u accepted and has come back
\* from the 'success' upsert.
DownloadedAndLogged(t, u) ==
    \E l \in th[t].logs : l.url = u /\ l.status = "success"

\* The candidates are the absolute forms of the PDF anchors; on the page with
\* the single link /r.pdf the only candidate is http://a/r.pdf.
AnchorCandidates(t) ==
    /\ th[t].pdf_urls = {UrlJoin(th[t].url, h) : h \in PdfAnchors(th[t].soup)}
    /\ th[t].soup = "anchor" => th[t].pdf_urls = {U1}

-----------------------------------------------------------------------------
(* C20 *)

\* The reason a record should carry for a refusal by the validator
ReasonOf(cause) == IF cause = "signature" THEN "signature_mismatch" ELSE "too_small"

\* C20: the 'failed' record written after the validator refused a body carries
\* a reason, signature_mismatch or too_small, that tells which test refused it.
C20_FailedRecordCarriesReason ==
    \A t \in Threads :
        th[t].pc = "log_release" /\ th[t].log_ok /\ BodyRefused(t) =>
            \A r \in RowsOf(harvested_pdfs, th[t].pdf_url) :
                /\ "reason" \in DOMAIN r
                /\ r.reason = ReasonOf(th[t].cause)

-----------------------------------------------------------------------------
(* C21 *)

\* The directory holds a file that a download of u wrote, with the signature
\* and of at least the least size: the file of the accepted PDF of u.
HasOwnFile(u) ==
    \E n \in DOMAIN files :
        /\ files[n].src = u
        /\ HasPdfSignature(files[n].body)
        /\ ~TooSmall(files[n].body.size)

\* C21: every URL this instance has accepted still has its own file with its
\* bytes in the directory: no later download, accepted or refused, overwrites
\* or removes the file of another accepted URL, also when both are given the
\* same file name.
C21_OneFilePerAcceptedUrl ==
    \A u \in downloaded_urls : HasOwnFile(u)

-----------------------------------------------------------------------------
(* C25 *)

\* C25: downloaded_urls and failed_urls have no URL in common, in every state
\* any sequence of scans on the instance can reach.
C25_SetsDisjoint ==
    downloaded_urls \cap failed_urls = {}

-----------------------------------------------------------------------------
(* C26 *)

\* The step begins a download of u.
StartsDownload(u) ==
    \E t \in Threads :
        /\ th[t].pc # "dl_get"
        /\ th'[t].pc = "dl_get"
        /\ th'[t].pdf_url = u

\* C26: in the scans of one session, a url whose record has status 'success'
\* keeps that record in every later state, and no later step begins a download
\* of it.
C26_SuccessIsFinal ==
    [][\A u \in URLs :
          HasRecord(u, "success") => HasRecord(u, "success")' /\ ~StartsDownload(u)]_vars

\* A later scan of a page has returned, after a candidate of that page had got
\* its 'success' record in an earlier scan; the record is still there.
C26_Witness ==
    \E t \in Threads :
        /\ Done(t)
        /\ th[t].fetched
        /\ th[t].prev.called
        /\ \E u \in th[t].pdf_urls :
              /\ \E r \in RowsOf(th[t].pre.harvested_pdfs, u) : r.status = "success"
              /\ HasRecord(u, "success")

-----------------------------------------------------------------------------
(* C27 *)

\* C27: when a scan has returned, also one during which the store refused an
\* upsert, every URL of downloaded_urls has a 'success' record and every URL of
\* failed_urls has a record.
C27_SetsKnownToStore ==
    \A t \in Threads :
        Done(t) =>
            /\ \A u \in downloaded_urls : HasRecord(u, "success")
            /\ \A u \in failed_urls : CountOf(harvested_pdfs, u) >= 1

-----------------------------------------------------------------------------
(* C28 *)

\* C28: when two threads scan on one instance, pages that have a candidate in
\* common, no URL has its download accepted in both scans, and no URL is in
\* the lists both scans return, however the two scans interleave.
C28_SharedCandidateDownloadedOnce ==
    \A t \in Threads, o \in Threads :
        t # o =>
            /\ AcceptedUrls(t) \cap AcceptedUrls(o) = {}
            /\ Done(t) /\ Done(o) => Range(th[t].ret) \cap Range(th[o].ret) = {}

-----------------------------------------------------------------------------
(* C24 *)

\* C24: for every pair of units listed in _CONV, convert_amount returns the
\* amount times the factor of that entry and raises nothing; it raises only
\* for a pair of different units that the table does not list.
C24_ListedPairsAreConverted ==
    pure.fn = "convert_amount" /\ pure.applied =>
        LET pair == <<pure.arg.from_unit, pure.arg.to_unit>>
        IN  /\ pair \in DOMAIN CONV =>
                  pure.result = Value(<<>>, Float(pure.arg.amount, <<>>, CONV[pair]))
            /\ pure.result.raised =>
                  pair[1] # pair[2] /\ pair \notin DOMAIN CONV

-----------------------------------------------------------------------------
(* C30 *)

\* The keys of the numeric fields of a line
NumericKeys(line) == {line[i].key : i \in Numeric(line)}

\* The string fields of a line in which a number is found
StringsWithNumber(line) == {i \in 1..Len(line) : ~line[i].isnum /\ HasNumber(line[i].str)}

\* C30: on a line with a numeric field whose key has a hint and a numeric
\* field whose key has none, _guess_factor_value returns the value of a field
\* with a hint, whatever the numbers are; on a line without a numeric field it
\* returns the first number found in a string field, else None.
C30_HintedFieldIsPreferred ==
    pure.fn = "_guess_factor_value" /\ pure.applied =>
        /\ (/\ \E k \in NumericKeys(pure.arg) : Hinted(k)
            /\ \E k \in NumericKeys(pure.arg) : ~Hinted(k)) =>
                ~pure.result.none /\ Hinted(pure.result.key)
        /\ Numeric(pure.arg) = {} =>
              IF StringsWithNumber(pure.arg) = {} THEN pure.result = None
              ELSE LET first == CHOOSE i \in StringsWithNumber(pure.arg) :
                                    \A j \in StringsWithNumber(pure.arg) : i <= j
                   IN  pure.result.value = SearchNumber(pure.arg[first].str)

-----------------------------------------------------------------------------
(* C23 *)

\* Every candidate of the page of thread t had a 'success' record when the
\* call began.
AllCandidatesKnown(t) ==
    \A u \in th[t].pdf_urls :
        \E r \in RowsOf(th[t].pre.harvested_pdfs, u) : r.status = "success"

\* The instance has been constructed and no scan has been called on it.
NoCallYet == \A t \in Threads : th[t].pc = "idle"

\* C23: the records of the instance before are all in the table after a
\* restart; and a scan of a page whose candidates all have a 'success' record
\* downloads nothing, returns an empty list and leaves those records with
\* status 'success', the in-memory sets being empty or not.
C23_StoreDecidesWhatIsKnown ==
    \A t \in Threads :
        /\ NoCallYet =>
              \A r \in BagToSet(th[t].pre.harvested_pdfs) : r \in BagToSet(harvested_pdfs)
        /\ (Done(t) /\ th[t].fetched /\ AllCandidatesKnown(t)) =>
              /\ th[t].attempted = {}
              /\ th[t].ret = <<>>
              /\ \A u \in th[t].pdf_urls : HasRecord(u, "success")

-----------------------------------------------------------------------------
(* C22 *)

\* The entry the export owes to a record
EntryOf(r) ==
    [pdf_url |-> r.url, filename |-> r.filename, article_title |-> r.article_title,
     article_url |-> r.article_url, harvest_date |-> r.harvest_date]

\* The records with status 'success' of the table the report was made of
SuccessRecords == {r \in BagToSet(report.of) : r.status = "success"}

\* C22: producing the export leaves the table as it is, and the exported array
\* has exactly one entry per record with status 'success' and none for a
\* 'failed' record, each entry with the url, filename, article_title,
\* article_url and harvest_date of its record, in descending order of
\* harvest_date.
C22_ExportIsProjectionOfSuccess ==
    /\ [][report'.made /\ report' # report =>
              harvested_pdfs' = harvested_pdfs /\ report'.of = harvested_pdfs]_vars
    /\ [](report.made =>
            /\ Len(report.data) = Cardinality(SuccessRecords)
            /\ \A r \in SuccessRecords : \E i \in DOMAIN report.data : report.data[i] = EntryOf(r)
            /\ \A i \in DOMAIN report.data : \E r \in SuccessRecords : report.data[i] = EntryOf(r)
            /\ \A i, j \in DOMAIN report.data :
                  i < j => report.data[i].harvest_date >= report.data[j].harvest_date)

\* An export of two records of different dates has been made of a table that
\* also holds a 'failed' record.
C22_Witness ==
    /\ report.made
    /\ Len(report.data) = 2
    /\ report.data[1].harvest_date > report.data[2].harvest_date
    /\ \E r \in BagToSet(report.of) : r.status = "failed"

-----------------------------------------------------------------------------
(* C29 *)

\* The links of the articles given to the call
GivenLinks == {updating.given[i].link : i \in 1..Len(updating.given)}

\* C29: when update_database has returned, the active rows are exactly the
\* rows whose link is a link of the given articles, and every such link has a
\* row; every row stored before whose link is not given is still there,
\* inactive; no link has two rows; and with an empty list all rows are
\* inactive.
C29_ActiveAreTheGiven ==
    updating.pc = "done" =>
        /\ \A r \in BagToSet(articles) : r.is_active = 1 <=> r.link \in GivenLinks
        /\ \A link \in GivenLinks : CountOfLink(articles, link) = 1
        /\ \A r \in BagToSet(updating.pre) :
              r.link \notin GivenLinks => Inactive(r) \in BagToSet(articles)
        /\ \A link \in FeedLinks : CountOfLink(articles, link) <= 1
        /\ updating.given = <<>> => \A r \in BagToSet(articles) : r.is_active = 0

\* A call has returned that was given articles, on a table that held an
\* active row for a given link and an active row for a link that was not
\* given.
C29_Witness ==
    /\ updating.pc = "done"
    /\ \E r \in BagToSet(updating.pre) : r.is_active = 1 /\ r.link \in GivenLinks
    /\ \E r \in BagToSet(updating.pre) : r.is_active = 1 /\ r.link \notin GivenLinks

====
